---- MODULE Spec2Model ----
(***************************************************************************)
(* Model of the grade store of src/main.py: the DataManager (ders_ekle,    *)
(* ogrenci_ekle, not_gir, karne, _load, _save), the NotKaydi / Ogrenci     *)
(* derived values, and the slash-command handlers that call them.          *)
(*                                                                         *)
(* Representation                                                          *)
(*   - a Python dict is an ordered dictionary [keys, val]: keys is the     *)
(*     insertion order, val the mapping;                                   *)
(*   - an Optional value is <<>> (None) or <<v>>;                          *)
(*   - a str that the code upper-cases (a course code) is a sequence of    *)
(*     ASCII code points; other strs are TLA+ strings;                     *)
(*   - a score is an integer; a float mean is [n, d, h], the double        *)
(*     n/d + h * 2^-54 / 3: statistics.mean computes the exact ratio n/d   *)
(*     and rounds it to the nearest double, h is the rounding error;       *)
(*   - veri.json is [exists, whole, text, part]: text is the sequence of   *)
(*     <<key, value>> members of a complete document, in order; part is    *)
(*     the leading tokens of a document whose write was cut short.         *)
(***************************************************************************)
EXTENDS Integers, Sequences, FiniteSets, TLC

VARIABLES data, file, last, nops, obj

vars == <<data, file, last, nops, obj>>

\* ------------------------------------------------------------------ bounds
MaxOps == 2
\* most tokens of the text that reach veri.json before a write fails
MaxKesik == 2

\* course codes typed by the caller: "m1", "M1", "f1"
Kodlar == { <<109, 49>>, <<77, 49>>, <<102, 49>> }
\* <<ad, kredi>> typed with a course code
DersBilgileri == { <<"Matematik", 1>>, <<"Fizik", 3>> }
Nolar == { "100", "200" }
OgrenciAdlari == { "Ali", "Veli" }
Siniflar == { "10-A" }
\* values a caller types for sinav1 (-1 = leave empty)
KomutPuanlari == { -1, 80, 90 }
\* values typed for sinav2 and for proje
ProjePuanlari == { -1, 90 }
\* outcomes <<io, cut>> of the write in _save: done, open("w") fails, or the
\* write fails after cut tokens of the text reached the file
Yazmalar ==
  { <<"ok", 0>>, <<"open_fails", 0>> } \cup { <<"write_fails", k>> : k \in 0..MaxKesik }

\* ------------------------------------------------------------- Python dict
EmptyDict == [keys |-> <<>>, val |-> <<>>]

Has(d, k) == k \in DOMAIN d.val

Get(d, k, default) == IF Has(d, k) THEN d.val[k] ELSE default

Put(d, k, v) ==
  IF Has(d, k)
  THEN [keys |-> d.keys, val |-> [d.val EXCEPT ![k] = v]]
  ELSE [keys |-> Append(d.keys, k), val |-> (k :> v) @@ d.val]

None == <<>>

Some(v) == <<v>>

\* str.upper() on ASCII text
upper(s) == [i \in DOMAIN s |-> IF s[i] >= 97 /\ s[i] <= 122 THEN s[i] - 32 ELSE s[i]]

\* ------------------------------------------------------------ data classes
asdict_Ders(kod, ad, kredi) == [kod |-> kod, ad |-> ad, kredi |-> kredi]

asdict_Ogrenci(no, ad, sinif) == [no |-> no, ad |-> ad, sinif |-> sinif, notlar |-> EmptyDict]

\* --------------------------------------------------------------------- IO
default == [ogrenciler |-> EmptyDict, dersler |-> EmptyDict]

\* json.dump of a dict whose values are already encoded: the members, in
\* insertion order
DumpMap(keys, enc) == [i \in 1..Len(keys) |-> <<keys[i], enc[keys[i]]>>]

\* json.load of an object: the keys in order of appearance ...
LoadKeys(s) == [i \in 1..Len(s) |-> s[i][1]]

\* ... and the (still encoded) value of key k, the last member named k
LoadVal(s, k) ==
  s[CHOOSE i \in 1..Len(s) : s[i][1] = k /\ \A j \in 1..Len(s) : s[j][1] = k => j <= i][2]

DumpNk(d) == DumpMap(d.keys, d.val)

LoadNk(s) == [keys |-> LoadKeys(s), val |-> [k \in { s[i][1] : i \in 1..Len(s) } |-> LoadVal(s, k)]]

DumpNotlar(d) == DumpMap(d.keys, [k \in DOMAIN d.val |-> DumpNk(d.val[k])])

LoadNotlar(s) ==
  [keys |-> LoadKeys(s), val |-> [k \in { s[i][1] : i \in 1..Len(s) } |-> LoadNk(LoadVal(s, k))]]

DumpOgrenci(o) ==
  << <<"no", o.no>>, <<"ad", o.ad>>, <<"sinif", o.sinif>>, <<"notlar", DumpNotlar(o.notlar)>> >>

LoadOgrenci(s) ==
  [no |-> s[1][2], ad |-> s[2][2], sinif |-> s[3][2], notlar |-> LoadNotlar(s[4][2])]

DumpDers(c) == << <<"kod", c.kod>>, <<"ad", c.ad>>, <<"kredi", c.kredi>> >>

LoadDers(s) == [kod |-> s[1][2], ad |-> s[2][2], kredi |-> s[3][2]]

json_dump(d) ==
  << <<"ogrenciler",
       DumpMap(d.ogrenciler.keys, [k \in DOMAIN d.ogrenciler.val |-> DumpOgrenci(d.ogrenciler.val[k])])>>,
     <<"dersler",
       DumpMap(d.dersler.keys, [k \in DOMAIN d.dersler.val |-> DumpDers(d.dersler.val[k])])>> >>

json_load(t) ==
  [ogrenciler |->
     [keys |-> LoadKeys(t[1][2]),
      val |-> [k \in { t[1][2][i][1] : i \in 1..Len(t[1][2]) } |-> LoadOgrenci(LoadVal(t[1][2], k))]],
   dersler |->
     [keys |-> LoadKeys(t[2][2]),
      val |-> [k \in { t[2][2][i][1] : i \in 1..Len(t[2][2]) } |-> LoadDers(LoadVal(t[2][2], k))]]]

\* the tokens json.dump writes for an object with members s (each a key
\* token and the tokens of its value)
RECURSIVE Uyeler(_)
Uyeler(s) ==
  IF s = <<>> THEN <<>>
  ELSE <<s[1][1], ":">> \o s[1][2] \o (IF Len(s) > 1 THEN <<",">> ELSE <<>>) \o Uyeler(Tail(s))

Obje(s) == <<"{">> \o Uyeler(s) \o <<"}">>

TokNk(s) == Obje([i \in 1..Len(s) |-> <<s[i][1], <<ToString(s[i][2])>>>>])

TokNotlar(s) == Obje([i \in 1..Len(s) |-> <<ToString(s[i][1]), TokNk(s[i][2])>>])

TokOgrenci(s) ==
  Obje(<< <<"no", <<s[1][2]>>>>, <<"ad", <<s[2][2]>>>>, <<"sinif", <<s[3][2]>>>>,
          <<"notlar", TokNotlar(s[4][2])>> >>)

TokDers(s) ==
  Obje(<< <<"kod", <<ToString(s[1][2])>>>>, <<"ad", <<s[2][2]>>>>,
          <<"kredi", <<ToString(s[3][2])>>>> >>)

\* the text of every document opens with the same tokens
Acilis == << "{", "ogrenciler", ":" >>

\* the text of a document, token by token, as f.write receives it
json_tokens(t) ==
  Acilis
  \o Obje([i \in 1..Len(t[1][2]) |-> <<t[1][2][i][1], TokOgrenci(t[1][2][i][2])>>])
  \o << ",", "dersler", ":" >>
  \o Obje([i \in 1..Len(t[2][2]) |-> <<ToString(t[2][2][i][1]), TokDers(t[2][2][i][2])>>])
  \o << "}" >>

NoFile == [exists |-> FALSE, whole |-> FALSE, text |-> <<>>, part |-> <<>>]

Whole(t) == [exists |-> TRUE, whole |-> TRUE, text |-> t, part |-> <<>>]

\* the first cut tokens of the text of t (always short of the last token)
Prefix(t, cut) ==
  IF cut <= Len(Acilis) THEN SubSeq(Acilis, 1, cut)
  ELSE LET toks == json_tokens(t)
       IN SubSeq(toks, 1, IF cut < Len(toks) THEN cut ELSE Len(toks) - 1)

\* a file whose write stopped after cut tokens
Partial(t, cut) == [exists |-> TRUE, whole |-> FALSE, text |-> <<>>, part |-> Prefix(t, cut)]

\* json.load raises JSONDecodeError on an incomplete document
load(f) ==
  IF f.exists
  THEN IF f.whole THEN json_load(f.text) ELSE "JSONDecodeError"
  ELSE default

\* mutant of save: the write error is swallowed
save_swallow(d, f, io, cut) ==
  CASE io = "ok" -> [file |-> Whole(json_dump(d)), raised |-> FALSE]
    [] io = "open_fails" -> [file |-> f, raised |-> FALSE]
    [] OTHER -> [file |-> Partial(json_dump(d), cut), raised |-> FALSE]

\* _save: open("w") may fail (file untouched), or the write may fail after
\* open("w") truncated the file and a proper prefix of the text was written.
save(d, f, io, cut) ==
  CASE io = "ok" -> [file |-> Whole(json_dump(d)), raised |-> FALSE]
    [] io = "open_fails" -> [file |-> f, raised |-> TRUE]
    [] OTHER -> [file |-> Partial(json_dump(d), cut), raised |-> TRUE]

\* ------------------------------------------------------------ DataManager
\* mutant of ders_ekle: the code is not upper-cased
ders_ekle_noupper(d, f, kod0, ad, kredi, io, cut) ==
  LET kod == kod0 IN
  IF Has(d.dersler, kod)
  THEN [data |-> d, file |-> f, ret |-> "False", save |-> "none"]
  ELSE LET d2 == [d EXCEPT !.dersler = Put(@, kod, asdict_Ders(kod, ad, kredi))]
           s == save(d2, f, io, cut)
       IN [data |-> d2, file |-> s.file, ret |-> IF s.raised THEN "OSError" ELSE "True", save |-> io]

\* mutant of ders_ekle: the document is written before the course is inserted
ders_ekle_save_first(d, f, kod0, ad, kredi, io, cut) ==
  LET kod == upper(kod0) IN
  IF Has(d.dersler, kod)
  THEN [data |-> d, file |-> f, ret |-> "False", save |-> "none"]
  ELSE LET d2 == [d EXCEPT !.dersler = Put(@, kod, asdict_Ders(kod, ad, kredi))]
           s == save(d, f, io, cut)
       IN [data |-> d2, file |-> s.file, ret |-> IF s.raised THEN "OSError" ELSE "True", save |-> io]

ders_ekle(d, f, kod0, ad, kredi, io, cut) ==
  LET kod == upper(kod0) IN
  IF Has(d.dersler, kod)
  THEN [data |-> d, file |-> f, ret |-> "False", save |-> "none"]
  ELSE LET d2 == [d EXCEPT !.dersler = Put(@, kod, asdict_Ders(kod, ad, kredi))]
           s == save(d2, f, io, cut)
       IN [data |-> d2, file |-> s.file, ret |-> IF s.raised THEN "OSError" ELSE "True", save |-> io]

ogrenci_ekle(d, f, no, ad, sinif, io, cut) ==
  IF Has(d.ogrenciler, no)
  THEN [data |-> d, file |-> f, ret |-> "False", save |-> "none"]
  ELSE LET d2 == [d EXCEPT !.ogrenciler = Put(@, no, asdict_Ogrenci(no, ad, sinif))]
           s == save(d2, f, io, cut)
       IN [data |-> d2, file |-> s.file, ret |-> IF s.raised THEN "OSError" ELSE "True", save |-> io]

SetIf(d, k, o) == IF o # None THEN Put(d, k, o[1]) ELSE d

\* mutant of not_gir: the course is looked up before the student
not_gir_swapped(d, f, no, ders_kodu, s1, s2, prj, io, cut) ==
  IF ~Has(d.dersler, upper(ders_kodu))
  THEN [data |-> d, file |-> f, ret |-> "Ders bulunamadi.", save |-> "none"]
  ELSE IF ~Has(d.ogrenciler, no)
  THEN [data |-> d, file |-> f, ret |-> "Ogrenci bulunamadi.", save |-> "none"]
  ELSE LET ogr == d.ogrenciler.val[no]
           nk0 == Get(ogr.notlar, upper(ders_kodu), EmptyDict)
           nk1 == SetIf(SetIf(SetIf(nk0, "sinav1", s1), "sinav2", s2), "proje", prj)
           ogr2 == [ogr EXCEPT !.notlar = Put(@, upper(ders_kodu), nk1)]
           d2 == [d EXCEPT !.ogrenciler = Put(@, no, ogr2)]
           s == save(d2, f, io, cut)
       IN [data |-> d2, file |-> s.file,
           ret |-> IF s.raised THEN "OSError" ELSE "Notlar guncellendi.", save |-> io]

\* mutant of not_gir: the record is rebuilt from the supplied values alone
not_gir_replace(d, f, no, ders_kodu, s1, s2, prj, io, cut) ==
  IF ~Has(d.ogrenciler, no)
  THEN [data |-> d, file |-> f, ret |-> "Ogrenci bulunamadi.", save |-> "none"]
  ELSE IF ~Has(d.dersler, upper(ders_kodu))
  THEN [data |-> d, file |-> f, ret |-> "Ders bulunamadi.", save |-> "none"]
  ELSE LET ogr == d.ogrenciler.val[no]
           nk0 == EmptyDict
           nk1 == SetIf(SetIf(SetIf(nk0, "sinav1", s1), "sinav2", s2), "proje", prj)
           ogr2 == [ogr EXCEPT !.notlar = Put(@, upper(ders_kodu), nk1)]
           d2 == [d EXCEPT !.ogrenciler = Put(@, no, ogr2)]
           s == save(d2, f, io, cut)
       IN [data |-> d2, file |-> s.file,
           ret |-> IF s.raised THEN "OSError" ELSE "Notlar guncellendi.", save |-> io]

\* mutant of not_gir: the record is stored under the code as typed
not_gir_rawkey(d, f, no, ders_kodu, s1, s2, prj, io, cut) ==
  IF ~Has(d.ogrenciler, no)
  THEN [data |-> d, file |-> f, ret |-> "Ogrenci bulunamadi.", save |-> "none"]
  ELSE IF ~Has(d.dersler, upper(ders_kodu))
  THEN [data |-> d, file |-> f, ret |-> "Ders bulunamadi.", save |-> "none"]
  ELSE LET ogr == d.ogrenciler.val[no]
           nk0 == Get(ogr.notlar, ders_kodu, EmptyDict)
           nk1 == SetIf(SetIf(SetIf(nk0, "sinav1", s1), "sinav2", s2), "proje", prj)
           ogr2 == [ogr EXCEPT !.notlar = Put(@, ders_kodu, nk1)]
           d2 == [d EXCEPT !.ogrenciler = Put(@, no, ogr2)]
           s == save(d2, f, io, cut)
       IN [data |-> d2, file |-> s.file,
           ret |-> IF s.raised THEN "OSError" ELSE "Notlar guncellendi.", save |-> io]

not_gir(d, f, no, ders_kodu, s1, s2, prj, io, cut) ==
  IF ~Has(d.ogrenciler, no)
  THEN [data |-> d, file |-> f, ret |-> "Ogrenci bulunamadi.", save |-> "none"]
  ELSE IF ~Has(d.dersler, upper(ders_kodu))
  THEN [data |-> d, file |-> f, ret |-> "Ders bulunamadi.", save |-> "none"]
  ELSE LET ogr == d.ogrenciler.val[no]
           nk0 == Get(ogr.notlar, upper(ders_kodu), EmptyDict)
           nk1 == SetIf(SetIf(SetIf(nk0, "sinav1", s1), "sinav2", s2), "proje", prj)
           ogr2 == [ogr EXCEPT !.notlar = Put(@, upper(ders_kodu), nk1)]
           d2 == [d EXCEPT !.ogrenciler = Put(@, no, ogr2)]
           s == save(d2, f, io, cut)
       IN [data |-> d2, file |-> s.file,
           ret |-> IF s.raised THEN "OSError" ELSE "Notlar guncellendi.", save |-> io]

\* ------------------------------------------------------ NotKaydi / Ogrenci
Alanlar == { "ders_kodu", "sinav1", "sinav2", "proje" }

\* NotKaydi(**nk_dict) raises TypeError without ders_kodu or with a key
\* that is no field
NotKaydi_ok(d) == Has(d, "ders_kodu") /\ DOMAIN d.val \subseteq Alanlar

Alan(d, k) == IF Has(d, k) THEN Some(d.val[k]) ELSE None

NotKaydi(d) ==
  [ders_kodu |-> d.val["ders_kodu"], sinav1 |-> Alan(d, "sinav1"),
   sinav2 |-> Alan(d, "sinav2"), proje |-> Alan(d, "proje")]

RECURSIVE Sum(_)
Sum(s) == IF s = <<>> THEN 0 ELSE Head(s) + Sum(Tail(s))

Abs(x) == IF x < 0 THEN -x ELSE x

\* the largest power of two 2^j with 3 * 2^j <= 4 * a (a >= 1), and whether
\* j is even: 2^(j-2) is the binade of a / 3
RECURSIVE Ust(_, _, _)
Ust(a, pw, even) ==
  IF 3 * (2 * pw) <= 4 * a THEN Ust(a, 2 * pw, ~even) ELSE [pw |-> pw, even |-> even]

\* float(Fraction(s, n)) - s/n in units of 2^-54 / 3, for n in 1..3: halves
\* and integers are doubles; a third is rounded to 53 bits, to nearest
Hata(s, n) ==
  IF n # 3 \/ s % 3 = 0 THEN 0
  ELSE LET a == Abs(s)
           u == Ust(a, 1, TRUE)
           r == ((a % 3) * (IF u.even THEN 1 ELSE 2)) % 3
           mag == IF r = 1 THEN -u.pw ELSE u.pw
       IN IF s > 0 THEN mag ELSE -mag

\* statistics.mean of numbers: the exact ratio, rounded to a double
mean(puanlar) ==
  [n |-> Sum(puanlar), d |-> Len(puanlar), h |-> Hata(Sum(puanlar), Len(puanlar))]

ortalama(r) ==
  LET puanlar == r.sinav1 \o r.sinav2 \o r.proje
  IN IF puanlar # <<>> THEN Some(mean(puanlar)) ELSE None

\* ort >= k for an integer k: rounding to nearest is monotone and k is a
\* double, so the double compares as the exact ratio does
Ge(ort, k) == ort.n >= k * ort.d

Gt(ort, k) == ort.n > k * ort.d

\* mutant of harf_notu: the thresholds are exclusive
harf_notu_strict(r) ==
  LET ort == ortalama(r) IN
  IF ort = None THEN None
  ELSE IF Gt(ort[1], 90) THEN Some("AA")
  ELSE IF Gt(ort[1], 85) THEN Some("BA")
  ELSE IF Gt(ort[1], 80) THEN Some("BB")
  ELSE IF Gt(ort[1], 70) THEN Some("CB")
  ELSE IF Gt(ort[1], 60) THEN Some("CC")
  ELSE IF Gt(ort[1], 50) THEN Some("DC")
  ELSE IF Gt(ort[1], 40) THEN Some("DD")
  ELSE Some("FF")

harf_notu(r) ==
  LET ort == ortalama(r) IN
  IF ort = None THEN None
  ELSE IF Ge(ort[1], 90) THEN Some("AA")
  ELSE IF Ge(ort[1], 85) THEN Some("BA")
  ELSE IF Ge(ort[1], 80) THEN Some("BB")
  ELSE IF Ge(ort[1], 70) THEN Some("CB")
  ELSE IF Ge(ort[1], 60) THEN Some("CC")
  ELSE IF Ge(ort[1], 50) THEN Some("DC")
  ELSE IF Ge(ort[1], 40) THEN Some("DD")
  ELSE Some("FF")

RECURSIVE SumFrac(_)
SumFrac(s) ==
  IF s = <<>> THEN [n |-> 0, d |-> 1]
  ELSE LET a == Head(s)
           b == SumFrac(Tail(s))
       IN [n |-> a.n * b.d + b.n * a.d, d |-> a.d * b.d]

RECURSIVE SumHata(_)
SumHata(s) == IF s = <<>> THEN 0 ELSE Head(s).h + SumHata(Tail(s))

\* statistics.mean of the doubles s: their exact sum (n/d + h * 2^-54 / 3)
\* over k = Len(s); the final rounding to a double keeps sign and zero
mean_frac(s) == [n |-> SumFrac(s).n, d |-> SumFrac(s).d, h |-> SumHata(s), k |-> Len(s)]

\* bool(x) of such a mean: the sum is 0.0 only when both parts are 0 (a
\* non-zero n/d is at least 1/6, the h part is below 2^-40)
Truthy(x) == x.n # 0 \/ x.h # 0

RECURSIVE Ortalamalar(_, _)
Ortalamalar(notlar, keys) ==
  IF keys = <<>> THEN <<>>
  ELSE ortalama(notlar.val[Head(keys)]) \o Ortalamalar(notlar, Tail(keys))

\* Ogrenci.genel_ortalama on an Ogrenci whose notlar holds NotKaydi objects
genel_ortalama(o) ==
  LET ortalamalar == Ortalamalar(o.notlar, o.notlar.keys)
  IN IF ortalamalar # <<>> THEN Some(mean_frac(ortalamalar)) ELSE None

\* ------------------------------------------------------------------ karne
Dash == [dash |-> TRUE]

Shown(v) == [dash |-> FALSE, v |-> v]

\* f"{x or '-'}" for an Optional number: None and 0 are both falsy
or_dash(x) == IF x # None /\ x[1] # 0 THEN Shown(x[1]) ELSE Dash

\* f"{nk.ortalama() or '-'}": None and a mean of 0.0 are falsy
ort_or_dash(x) == IF x # None /\ x[1].n # 0 THEN Shown(x[1]) ELSE Dash

\* f"{nk.harf_notu() or '-'}": every letter grade is a non-empty str
harf_or_dash(x) == IF x # None THEN Shown(x[1]) ELSE Dash

satir(ders_kodu, r) ==
  [ders |-> ders_kodu, s1 |-> or_dash(r.sinav1), s2 |-> or_dash(r.sinav2),
   pr |-> or_dash(r.proje), ort |-> ort_or_dash(ortalama(r)),
   harf |-> harf_or_dash(harf_notu(r))]

\* f"Genel Ortalama: {genel:.2f}" if genel else "Genel Ortalama: -"
genel_satiri(genel) == IF genel # None /\ Truthy(genel[1]) THEN Shown(genel[1]) ELSE Dash

Raised(e) == [ret |-> e, baslik |-> <<>>, rows |-> <<>>, genel |-> Dash]

karne(d, no) ==
  IF ~Has(d.ogrenciler, no) THEN Raised("None")
  ELSE LET ogr == d.ogrenciler.val[no]
           keys == ogr.notlar.keys
       IN IF \E i \in 1..Len(keys) : ~NotKaydi_ok(ogr.notlar.val[keys[i]])
          THEN Raised("TypeError")
          \* genel_ortalama calls .ortalama() on the dicts of ogr.notlar
          ELSE IF keys # <<>> THEN Raised("AttributeError")
          ELSE [ret |-> "text",
                baslik |-> <<ogr.ad, ogr.no, ogr.sinif>>,
                rows |-> [i \in 1..Len(keys) |-> satir(keys[i], NotKaydi(ogr.notlar.val[keys[i]]))],
                genel |-> genel_satiri(genel_ortalama([ogr EXCEPT !.notlar = EmptyDict]))]

\* --------------------------------------------------------- slash commands
\* s1 = None if sinav1 == -1 else sinav1
komut_puan(x) == IF x = -1 THEN None ELSE Some(x)

\* last: the latest call, what it returned (or raised) and what _save did
Baslangic == [op |-> "init", args |-> <<>>, ret |-> "", save |-> "none", out |-> <<>>]

NoObj == [no |-> "", ad |-> "", sinif |-> "", notlar |-> EmptyDict]

\* veri.json as an earlier run of the program left it: the file written by
\* ders_ekle("m1", "Matematik", 1), ogrenci_ekle("100", "Ali", "10-A") and
\* not_gir("100", "m1", 80, None, None)
OncekiDosya ==
  LET a == ders_ekle(default, NoFile, <<109, 49>>, "Matematik", 1, "ok", 0)
      b == ogrenci_ekle(a.data, a.file, "100", "Ali", "10-A", "ok", 0)
      c == not_gir(b.data, b.file, "100", <<109, 49>>, Some(80), None, None, "ok", 0)
  IN c.file

\* DataManager.__init__: veri.json is missing or left by an earlier run
Dosyalar == { NoFile, OncekiDosya }

Init ==
  /\ file \in Dosyalar
  /\ data = load(file)
  /\ last = Baslangic
  /\ nops = 0
  /\ obj = NoObj

cmd_ders_ekle(kod, ad, kredi, io, cut) ==
  /\ nops < MaxOps
  /\ LET r == ders_ekle(data, file, kod, ad, kredi, io, cut) IN
       /\ data' = r.data
       /\ file' = r.file
       /\ last' = [op |-> "ders_ekle", args |-> <<kod, ad, kredi>>, ret |-> r.ret, save |-> r.save, out |-> <<>>]
  /\ nops' = nops + 1
  /\ UNCHANGED obj

cmd_ogrenci_ekle(no, ad, sinif, io, cut) ==
  /\ nops < MaxOps
  /\ LET r == ogrenci_ekle(data, file, no, ad, sinif, io, cut) IN
       /\ data' = r.data
       /\ file' = r.file
       /\ last' = [op |-> "ogrenci_ekle", args |-> <<no, ad, sinif>>, ret |-> r.ret, save |-> r.save, out |-> <<>>]
  /\ nops' = nops + 1
  /\ UNCHANGED obj

cmd_not_gir(no, ders_kodu, sinav1, sinav2, proje, io, cut) ==
  /\ nops < MaxOps
  /\ LET s1 == komut_puan(sinav1)
         s2 == komut_puan(sinav2)
         pr == komut_puan(proje)
         r == not_gir(data, file, no, ders_kodu, s1, s2, pr, io, cut)
     IN
       /\ data' = r.data
       /\ file' = r.file
       /\ last' = [op |-> "not_gir", args |-> <<no, ders_kodu, s1, s2, pr>>,
                   ret |-> r.ret, save |-> r.save, out |-> <<sinav1, sinav2, proje>>]
  /\ nops' = nops + 1
  /\ UNCHANGED obj

cmd_karne(no) ==
  /\ nops < MaxOps
  /\ LET r == karne(data, no) IN
       last' = [op |-> "karne", args |-> <<no>>, ret |-> r.ret, save |-> "none", out |-> r]
  /\ nops' = nops + 1
  /\ UNCHANGED <<data, file, obj>>

Next ==
  \/ \E kod \in Kodlar, b \in DersBilgileri, y \in Yazmalar :
       cmd_ders_ekle(kod, b[1], b[2], y[1], y[2])
  \/ \E no \in Nolar, ad \in OgrenciAdlari, sinif \in Siniflar, y \in Yazmalar :
       cmd_ogrenci_ekle(no, ad, sinif, y[1], y[2])
  \/ \E no \in Nolar, ders_kodu \in Kodlar, sinav1 \in KomutPuanlari, sinav2 \in ProjePuanlari,
        proje \in ProjePuanlari, y \in Yazmalar :
       cmd_not_gir(no, ders_kodu, sinav1, sinav2, proje, y[1], y[2])
  \/ \E no \in Nolar : cmd_karne(no)

Spec == Init /\ [][Next]_vars

\* ------------------------------------------- NotKaydi / Ogrenci as objects
\* The methods of NotKaydi and Ogrenci and the row expressions of karne,
\* applied to an Ogrenci object whose notlar holds NotKaydi objects.
M1 == <<77, 49>>

F1 == <<70, 49>>

Opt(S) == { None } \cup { Some(v) : v \in S }

SinirPuanlari == { -10, 0, 39, 40, 49, 50, 59, 60, 69, 70, 79, 80, 84, 85, 89, 90, 100, 110 }

KucukPuanlar == { -70, 0, 90 }

Kayitlar(kod, S) ==
  [ders_kodu : { kod }, sinav1 : Opt(S), sinav2 : Opt(S), proje : Opt(S)]

Nesne(notlar) == [no |-> "100", ad |-> "Ali", sinif |-> "10-A", notlar |-> notlar]

K1 == <<75, 49>>

IkiPuan == { 0, 1 }

Nesneler ==
  { Nesne(Put(EmptyDict, M1, r)) : r \in Kayitlar(M1, SinirPuanlari) }
  \cup { Nesne(Put(Put(Put(EmptyDict, M1, r), F1, q), K1,
                   [ders_kodu |-> K1, sinav1 |-> Some(-1), sinav2 |-> None, proje |-> None])) :
           r \in Kayitlar(M1, IkiPuan), q \in Kayitlar(F1, IkiPuan) }
  \cup { Nesne(Put(Put(EmptyDict, M1, r), F1, q)) :
           r \in Kayitlar(M1, KucukPuanlar), q \in Kayitlar(F1, KucukPuanlar) }

InitNot ==
  /\ file = NoFile
  /\ data = load(file)
  /\ last = Baslangic
  /\ nops = 0
  /\ obj \in Nesneler

eval_ortalama(k) ==
  /\ last' = [op |-> "ortalama", args |-> <<k>>, ret |-> "", save |-> "none",
              out |-> ortalama(obj.notlar.val[k])]
  /\ UNCHANGED <<data, file, nops, obj>>

eval_harf_notu(k) ==
  /\ last' = [op |-> "harf_notu", args |-> <<k>>, ret |-> "", save |-> "none",
              out |-> harf_notu(obj.notlar.val[k])]
  /\ UNCHANGED <<data, file, nops, obj>>

eval_satir(k) ==
  /\ last' = [op |-> "satir", args |-> <<k>>, ret |-> "", save |-> "none",
              out |-> satir(k, obj.notlar.val[k])]
  /\ UNCHANGED <<data, file, nops, obj>>

eval_genel ==
  /\ last' = [op |-> "genel", args |-> <<>>, ret |-> "", save |-> "none",
              out |-> [genel |-> genel_ortalama(obj), satir |-> genel_satiri(genel_ortalama(obj))]]
  /\ UNCHANGED <<data, file, nops, obj>>

NextNot ==
  \/ \E k \in DOMAIN obj.notlar.val : eval_ortalama(k)
  \/ \E k \in DOMAIN obj.notlar.val : eval_harf_notu(k)
  \/ \E k \in DOMAIN obj.notlar.val : eval_satir(k)
  \/ eval_genel

SpecNot == InitNot /\ [][NextNot]_vars

\* ================================================================= claims
Basari == { "True", "Notlar guncellendi." }

Red == { "False", "Ogrenci bulunamadi.", "Ders bulunamadi." }

YazmaHatasi == { "open_fails", "write_fails" }

\* C1: an addCourse whose upper-cased code is already a key of the store, and
\* an addStudent whose id is already a key, returns failure and leaves the
\* store and the persisted document unchanged; no call overwrites a course
\* record, and addStudent overwrites no student record.
C1_Uniqueness ==
  [][ /\ (last'.op = "ders_ekle" /\ Has(data.dersler, upper(last'.args[1])))
           => (last'.ret = "False" /\ data' = data /\ file' = file)
      /\ (last'.op = "ogrenci_ekle" /\ Has(data.ogrenciler, last'.args[1]))
           => (last'.ret = "False" /\ data' = data /\ file' = file)
      /\ \A k \in DOMAIN data.dersler.val :
           Has(data'.dersler, k) /\ data'.dersler.val[k] = data.dersler.val[k]
      /\ last'.op = "ogrenci_ekle"
           => \A n \in DOMAIN data.ogrenciler.val :
                Has(data'.ogrenciler, n) /\ data'.ogrenciler.val[n] = data.ogrenciler.val[n]
    ]_vars

\* C1 witness: a course typed in lower case with another name was refused
\* and the stored record kept its name
C1_Witness ==
  /\ last.op = "ders_ekle"
  /\ last.ret = "False"
  /\ last.args[1] # upper(last.args[1])
  /\ Has(data.dersler, upper(last.args[1]))
  /\ data.dersler.val[upper(last.args[1])].ad # last.args[2]

\* C2: not_gir for a student that is not in the store returns "student not
\* found" (also when the course is missing too); for a student in the store
\* and a course that is not, "course not found"; neither changes the store
\* or the persisted document.
C2_Preconditions ==
  [][ last'.op = "not_gir" =>
        /\ ~Has(data.ogrenciler, last'.args[1])
             => (last'.ret = "Ogrenci bulunamadi." /\ data' = data /\ file' = file)
        /\ (Has(data.ogrenciler, last'.args[1]) /\ ~Has(data.dersler, upper(last'.args[2])))
             => (last'.ret = "Ders bulunamadi." /\ data' = data /\ file' = file)
    ]_vars

\* C2 witness: student and course both missing, answered "student not found"
C2_Witness ==
  /\ last.op = "not_gir"
  /\ last.ret = "Ogrenci bulunamadi."
  /\ ~Has(data.ogrenciler, last.args[1])
  /\ ~Has(data.dersler, upper(last.args[2]))
  /\ data.dersler.keys # <<>>

PuanAlanlari == << "sinav1", "sinav2", "proje" >>

\* C3: a successful not_gir sets exactly the supplied fields of the record to
\* the supplied values, keeps every other field as stored (absent stays
\* absent), and changes no other record, no other student and no course; a
\* typed -1 is "not supplied".
C3_PartialUpdate ==
  [][ (last'.op = "not_gir" /\ last'.ret = "Notlar guncellendi.") =>
        LET no == last'.args[1]
            K == upper(last'.args[2])
            eski == data.ogrenciler.val[no]
            yeni == data'.ogrenciler.val[no]
            old == Get(eski.notlar, K, EmptyDict)
            new == yeni.notlar.val[K]
        IN /\ \A i \in 1..3 :
                LET o == last'.args[i + 2]
                    f == PuanAlanlari[i]
                IN /\ (last'.out[i] = -1) <=> (o = None)
                   /\ o # None => (o = Some(last'.out[i]) /\ Has(new, f) /\ new.val[f] = o[1])
                   /\ o = None => /\ Has(new, f) <=> Has(old, f)
                                  /\ Has(old, f) => new.val[f] = old.val[f]
           /\ DOMAIN new.val \subseteq { PuanAlanlari[i] : i \in 1..3 }
           /\ DOMAIN yeni.notlar.val = DOMAIN eski.notlar.val \cup { K }
           /\ \A k \in DOMAIN eski.notlar.val \ { K } : yeni.notlar.val[k] = eski.notlar.val[k]
           /\ yeni.no = eski.no /\ yeni.ad = eski.ad /\ yeni.sinif = eski.sinif
           /\ DOMAIN data'.ogrenciler.val = DOMAIN data.ogrenciler.val
           /\ \A n \in DOMAIN data.ogrenciler.val \ { no } :
                data'.ogrenciler.val[n] = data.ogrenciler.val[n]
           /\ data'.dersler = data.dersler
    ]_vars

\* C3 witness: on a record holding sinav1 = 80, not_gir with only sinav2 = 90
\* supplied gave {sinav1: 80, sinav2: 90}
C3_Witness ==
  /\ last.op = "not_gir"
  /\ last.ret = "Notlar guncellendi."
  /\ last.out = <<-1, 90, -1>>
  /\ LET rec == data.ogrenciler.val[last.args[1]].notlar.val[upper(last.args[2])]
     IN /\ DOMAIN rec.val = { "sinav1", "sinav2" }
        /\ rec.val["sinav1"] = 80
        /\ rec.val["sinav2"] = 90

\* C4: when ders_ekle, ogrenci_ekle or not_gir returns its success status the
\* persisted document, read back, is the in-memory document; a call that
\* returns a failure status writes nothing.
C4_WriteThrough ==
  [][ /\ last'.ret \in Basari => (file'.exists /\ file'.whole /\ load(file') = data')
      /\ last'.ret \in Red => (file' = file /\ last'.save = "none")
    ]_vars

\* C4 witness: a second course was added with success over an existing file
C4_Witness ==
  /\ last.op = "ders_ekle"
  /\ last.ret = "True"
  /\ Len(data.dersler.keys) = 2
  /\ Len(data.ogrenciler.keys) = 1
  /\ file.exists
  /\ Len(file.text[2][2]) = 2

\* C5 (the claim as stated): karne returns None exactly for a student that is
\* not in the store, and for every student in the store a report with one
\* row per grade record, in insertion order, never an error.
C5_Report ==
  last.op = "karne" =>
    /\ (last.ret = "None") <=> ~Has(data.ogrenciler, last.args[1])
    /\ Has(data.ogrenciler, last.args[1]) =>
         LET keys == data.ogrenciler.val[last.args[1]].notlar.keys
         IN /\ last.ret = "text"
            /\ Len(last.out.rows) = Len(keys)
            /\ \A i \in 1..Len(keys) : last.out.rows[i].ders = keys[i]

Deger(o) == IF o = None THEN 0 ELSE o[1]

Adet(r) == Cardinality({ i \in 1..3 : <<r.sinav1, r.sinav2, r.proje>>[i] # None })

Toplam(r) == Deger(r.sinav1) + Deger(r.sinav2) + Deger(r.proje)

\* the bands of the letter grade, for the mean t / c
Bant(t, c) ==
  CASE t >= 90 * c -> "AA"
    [] 85 * c <= t /\ t < 90 * c -> "BA"
    [] 80 * c <= t /\ t < 85 * c -> "BB"
    [] 70 * c <= t /\ t < 80 * c -> "CB"
    [] 60 * c <= t /\ t < 70 * c -> "CC"
    [] 50 * c <= t /\ t < 60 * c -> "DC"
    [] 40 * c <= t /\ t < 50 * c -> "DD"
    [] t < 40 * c -> "FF"

\* C6: ortalama is the arithmetic mean of the fields that are present, and
\* harf_notu is the band of that mean with inclusive lower bounds; both are
\* None exactly when all three fields are absent, and a letter is given for
\* every mean, negative and above 100 included.
C6_AverageLetter ==
  /\ last.op = "ortalama" =>
       LET r == obj.notlar.val[last.args[1]]
       IN /\ (last.out = None) <=> (Adet(r) = 0)
          /\ last.out # None => last.out[1].n * Adet(r) = Toplam(r) * last.out[1].d
  /\ last.op = "harf_notu" =>
       LET r == obj.notlar.val[last.args[1]]
       IN /\ (last.out = None) <=> (Adet(r) = 0)
          /\ last.out # None => last.out = Some(Bant(Toplam(r), Adet(r)))

\* C6 witness: a mean of exactly 85 over two present fields got "BA"
C6_Witness ==
  /\ last.op = "harf_notu"
  /\ LET r == obj.notlar.val[last.args[1]]
     IN /\ Adet(r) = 2
        /\ Toplam(r) = 170
        /\ r.sinav1 # r.proje
  /\ last.out = Some("BA")

\* C7 (the claim as stated): a score column shows the dash iff the field is
\* absent, the average column iff the average is undefined, and the
\* overall-average line iff the overall average is undefined.
C7_Dash ==
  /\ last.op = "satir" =>
       LET r == obj.notlar.val[last.args[1]]
       IN /\ last.out.s1.dash <=> (r.sinav1 = None)
          /\ last.out.s2.dash <=> (r.sinav2 = None)
          /\ last.out.pr.dash <=> (r.proje = None)
          /\ last.out.ort.dash <=> (Adet(r) = 0)
  /\ last.op = "genel" =>
       (last.out.satir.dash <=> \A k \in DOMAIN obj.notlar.val : Adet(obj.notlar.val[k]) = 0)

\* C8: when the write fails inside ders_ekle, ogrenci_ekle or not_gir the
\* call does not return its success status; the error reaches the caller.
C8_WriteFailureFatal ==
  last.save \in YazmaHatasi => (last.ret \notin Basari /\ last.ret = "OSError")

\* C8 witness: the write of a not_gir failed part-way, leaving the first
\* tokens of the text in the file
C8_Witness ==
  /\ last.op = "not_gir"
  /\ last.save = "write_fails"
  /\ last.ret = "OSError"
  /\ file.exists
  /\ ~file.whole
  /\ file.part # <<>>
  /\ file.part = SubSeq(json_tokens(json_dump(data)), 1, Len(file.part))
  /\ Len(file.part) < Len(json_tokens(json_dump(data)))

IsPrefix(a, b) == Len(a) <= Len(b) /\ SubSeq(b, 1, Len(a)) = a

RefIntegrity ==
  /\ \A k \in DOMAIN data.dersler.val : data.dersler.val[k].kod = k
  /\ \A n \in DOMAIN data.ogrenciler.val :
       /\ data.ogrenciler.val[n].no = n
       /\ \A k \in DOMAIN data.ogrenciler.val[n].notlar.val :
            k = upper(k) /\ Has(data.dersler, k)

NeverRemoved ==
  /\ IsPrefix(data.dersler.keys, data'.dersler.keys)
  /\ IsPrefix(data.ogrenciler.keys, data'.ogrenciler.keys)
  /\ \A n \in DOMAIN data.ogrenciler.val :
       IsPrefix(data.ogrenciler.val[n].notlar.keys, data'.ogrenciler.val[n].notlar.keys)

\* C9: every key of every student's grade mapping is an upper-case code that
\* is a key of the course mapping, every record sits under a student of the
\* student mapping, and courses, students and records are never removed.
C9_Referential == []RefIntegrity /\ [][NeverRemoved]_vars

\* C9 witness: a student holds records for two courses
C9_Witness ==
  \E n \in DOMAIN data.ogrenciler.val :
    /\ Len(data.ogrenciler.val[n].notlar.keys) = 2
    /\ Len(data.dersler.keys) = 2

\* C10 (the claim as stated): when the write fails inside ders_ekle,
\* ogrenci_ekle or not_gir the in-memory store is as it was before the call.
C10_Rollback == [][last'.save \in YazmaHatasi => data' = data]_vars

====
